---- MODULE Spec2Model ----
(***************************************************************************)
(* Model of knack's layered configuration resolver (src/knack/config.py):  *)
(* CLIConfig over a chain of _ConfigFile sources, the process environment  *)
(* and the configuration files on disk.                                    *)
(*                                                                         *)
(* Text (section names, option names, values, environment variable names)  *)
(* is a sequence of one-character strings, so that upper-casing, lower-    *)
(* casing, splitting on "_" and whitespace stripping are computed.         *)
(* A file's content is what ConfigParser.read parses from it: a function   *)
(* from section names to functions from option names to values.            *)
(* The parser is Python 3's configparser.ConfigParser (config.py:16):      *)
(* option names pass through optionxform (lower-case) on set/get/          *)
(* has_option, and a value read back from a file is whitespace-stripped.   *)
(* Paths are sequences of path components; <<>> is the filesystem root.    *)
(***************************************************************************)
EXTENDS Integers, Sequences, FiniteSets, TLC

VARIABLES
    environ,   \* os.environ: the <<name, value>> pairs set, in their order
    cwd,       \* os.getcwd()
    umask,     \* the process's file creation mask (set of permission bits)
    dirs,      \* the directories that exist
    disk,      \* config_path -> [exists, content, mode]
    disk0,     \* the disk as it was when the instances were constructed
    inst,      \* CLIConfig instances: [constructed, use_local_config, chain]
    pc,        \* per writer process: position inside set_value / set
    tmp,       \* per writer process: the transient parser and the call's arguments
    last,      \* the last completed operation, with the target file it started from
    ops        \* number of operations performed so far

vars == <<environ, cwd, umask, dirs, disk, disk0, inst, pc, tmp, last, ops>>

-----------------------------------------------------------------------------
(* Bounds *)

MaxOps == 2

-----------------------------------------------------------------------------
(* Text *)

LowerLetters ==
    << "a", "b", "c", "d", "e", "f", "g", "h", "i", "j", "k", "l", "m",
       "n", "o", "p", "q", "r", "s", "t", "u", "v", "w", "x", "y", "z" >>

UpperLetters ==
    << "A", "B", "C", "D", "E", "F", "G", "H", "I", "J", "K", "L", "M",
       "N", "O", "P", "Q", "R", "S", "T", "U", "V", "W", "X", "Y", "Z" >>

ToUpper ==
    [ch \in { LowerLetters[k] : k \in DOMAIN LowerLetters } |->
        UpperLetters[CHOOSE k \in DOMAIN LowerLetters : LowerLetters[k] = ch]]

ToLower ==
    [ch \in { UpperLetters[k] : k \in DOMAIN UpperLetters } |->
        LowerLetters[CHOOSE k \in DOMAIN UpperLetters : UpperLetters[k] = ch]]

UpperChar(ch) == IF ch \in DOMAIN ToUpper THEN ToUpper[ch] ELSE ch

LowerChar(ch) == IF ch \in DOMAIN ToLower THEN ToLower[ch] ELSE ch

Upper(s) == [i \in 1..Len(s) |-> UpperChar(s[i])]

Lower(s) == [i \in 1..Len(s) |-> LowerChar(s[i])]

IsSpace(ch) == ch = " "

RECURSIVE LStrip(_)
LStrip(s) == IF s # <<>> /\ IsSpace(Head(s)) THEN LStrip(Tail(s)) ELSE s

RECURSIVE RStrip(_)
RStrip(s) ==
    IF s # <<>> /\ IsSpace(s[Len(s)]) THEN RStrip(SubSeq(s, 1, Len(s) - 1)) ELSE s

Strip(s) == RStrip(LStrip(s))

IsPrefix(p, s) == Len(p) <= Len(s) /\ SubSeq(s, 1, Len(p)) = p

\* s.split('_')[0]
RECURSIVE FirstSegment(_)
FirstSegment(s) ==
    IF s = <<>> \/ Head(s) = "_" THEN <<>> ELSE <<Head(s)>> \o FirstSegment(Tail(s))

\* s.split('_')[-1]
RECURSIVE LastSegment(_)
LastSegment(s) ==
    IF s = <<>> \/ s[Len(s)] = "_" THEN <<>>
    ELSE LastSegment(SubSeq(s, 1, Len(s) - 1)) \o <<s[Len(s)]>>

Sections == { <<"C">>, <<"c", "_", "a">> }

Options == { <<"o">>, <<"O">>, <<"a", "_", "o">> }

Values == { <<"v">>, <<" ", "w">> }

EnvValues == { <<" ", "j">> }

-----------------------------------------------------------------------------
(* configparser.ConfigParser, as config.py uses it *)

EmptyStore == [s \in {} |-> s]

\* configparser's optionxform: option names are lower-cased on every access.
optionxform(option) == Lower(option)

\* config.add_section(section), DuplicateSectionError swallowed (lines 164-167).
AddSection(store, section) ==
    IF section \in DOMAIN store THEN store
    ELSE [s \in DOMAIN store \cup {section} |->
            IF s = section THEN EmptyStore ELSE store[s]]

\* config.set(section, option, value) on an existing section (line 168).
ParserSet(store, section, option, value) ==
    [store EXCEPT ![section] =
        [o \in DOMAIN @ \cup {optionxform(option)} |->
            IF o = optionxform(option) THEN value ELSE @[o]]]

ParserHasOption(store, section, option) ==
    /\ section \in DOMAIN store
    /\ optionxform(option) \in DOMAIN store[section]

Found(text) == [error |-> "none", none |-> FALSE, text |-> text]

Raised(kind) == [error |-> kind, none |-> TRUE, text |-> <<>>]

ParserGet(store, section, option) ==
    IF section \notin DOMAIN store THEN Raised("NoSectionError")
    ELSE IF optionxform(option) \notin DOMAIN store[section] THEN Raised("NoOptionError")
    ELSE Found(store[section][optionxform(option)])

\* config.items(section): the (name, value) pairs of the section.
ParserItems(store, section) ==
    { <<o, store[section][o]>> : o \in DOMAIN store[section] }

\* What a parser reads from the text config.write(configfile) produces for
\* `store`: "name = value" lines per section, each value stripped on reading.
WrittenContent(store) ==
    [s \in DOMAIN store |-> [o \in DOMAIN store[s] |-> Strip(store[s][o])]]

-----------------------------------------------------------------------------
(* The filesystem *)

Root == <<>>

Home == <<"h">>

\* os.path.dirname: the root is its own parent.
dirname(path) == IF path = Root THEN Root ELSE SubSeq(path, 1, Len(path) - 1)

\* os.path.basename
basename(path) == IF path = Root THEN "" ELSE path[Len(path)]

\* os.path.join(path, name)
join(path, name) == Append(path, name)

OwnerOnly == {"ur", "uw"}

\* open(path, 'w') creates with rw for user, group and other, less the umask.
CreateMode == {"ur", "uw", "gr", "gw", "or", "ow"}

NoFile == [exists |-> FALSE, content |-> EmptyStore, mode |-> {}]

\* config.read(path): the parsed content; a missing file reads as nothing.
ReadFile(d, path) == IF d[path].exists THEN d[path].content ELSE EmptyStore

\* ensure_dir(config_dir)
ensure_dir(ds, dir) == ds \cup {dir}

\* open(config_path, 'w'): truncate an existing file, keeping its mode, or
\* create the file with the default creation mode.
OpenForWrite(d, path, mask) ==
    [d EXCEPT ![path] =
        IF @.exists THEN [@ EXCEPT !.content = EmptyStore]
        ELSE [exists |-> TRUE, content |-> EmptyStore, mode |-> CreateMode \ mask]]

\* Faulty variant of WriteFile: nothing reaches the file.
WriteFile_Nothing(d, path, store) == d

\* config.write(configfile) and leaving the with-block
WriteFile(d, path, store) == [d EXCEPT ![path].content = WrittenContent(store)]

\* Faulty variant of Chmod: the mode is left as it is.
Chmod_Skipped(d, path) == d

\* os.chmod(config_path, stat.S_IRUSR | stat.S_IWUSR)
Chmod(d, path) == [d EXCEPT ![path].mode = OwnerOnly]

-----------------------------------------------------------------------------
(* _ConfigFile *)

\* _ConfigFile.__init__: the file is parsed only if it exists now.
ConfigFile(d, config_dir, config_path) ==
    [config_dir    |-> config_dir,
     config_path   |-> config_path,
     config_parser |-> IF d[config_path].exists
                       THEN [loaded |-> TRUE, store |-> ReadFile(d, config_path)]
                       ELSE [loaded |-> FALSE, store |-> EmptyStore]]

FileItems(f, section) ==
    IF ~f.config_parser.loaded THEN [error |-> "none", entries |-> {}]
    ELSE IF section \notin DOMAIN f.config_parser.store
         THEN [error |-> "NoSectionError", entries |-> {}]
         ELSE [error |-> "none", entries |-> ParserItems(f.config_parser.store, section)]

FileHasOption(f, section, option) ==
    IF f.config_parser.loaded
    THEN ParserHasOption(f.config_parser.store, section, option)
    ELSE FALSE

FileGet(f, section, option) ==
    IF f.config_parser.loaded
    THEN ParserGet(f.config_parser.store, section, option)
    ELSE Raised("NoOptionError")

\* _ConfigFile.set, as one step: the disk and directories after it.
FileSetDirs(ds, f) == ensure_dir(ds, f.config_dir)

FileSet(d, mask, f, config) ==
    Chmod(WriteFile(OpenForWrite(d, f.config_path, mask), f.config_path, config),
          f.config_path)

\* The last line of _ConfigFile.set reads the file back into `config`, the
\* parser it was handed; this is that parser afterwards.
ConfigAfterSet(d, f, config) == ReadFile(d, f.config_path)

\* Faulty variant of FileAfterSet: set drops the source's loaded parser.
FileAfterSet_Unloaded(d, f) ==
    [f EXCEPT !.config_parser = [loaded |-> FALSE, store |-> EmptyStore]]

\* The _ConfigFile itself after set: no assignment to self.config_parser.
FileAfterSet(d, f) == f

\* Faulty variant of TransientConfig: the value is set in the snapshot this source
\* loaded at construction, not in a fresh read of the file.
TransientConfig_FromSnapshot(d, f, section, option, value) ==
    ParserSet(AddSection(f.config_parser.store, section), section, option, value)

\* _ConfigFile.set_value up to the call of set: the transient parser.
TransientConfig(d, f, section, option, value) ==
    ParserSet(AddSection(ReadFile(d, f.config_path), section), section, option, value)

-----------------------------------------------------------------------------
(* CLIConfig *)

\* _DEFAULT_CONFIG_ENV_VAR_PREFIX
EnvVarPrefix == <<"C", "L", "I">>

\* _DEFAULT_CONFIG_DIR, after os.path.expanduser
ConfigDir == join(Home, ".cli")

\* _DEFAULT_CONFIG_FILE_NAME
ConfigFileName == "config"

\* self._env_var_format up to '{section}_{option}'
env_var_format == Upper(EnvVarPrefix) \o <<"_">>

\* Faulty variant of env_var_name: the section is used as it is written.
env_var_name_SectionAsWritten(section, option) ==
    env_var_format \o section \o <<"_">> \o Upper(option)

env_var_name(section, option) ==
    env_var_format \o Upper(section) \o <<"_">> \o Upper(option)

\* Faulty variant of LocalChain: the walk stops below the root.
RECURSIVE LocalChain_BelowRoot(_, _)
LocalChain_BelowRoot(d, current_dir) ==
    LET current_config_dir == join(current_dir, basename(ConfigDir))
        f == ConfigFile(d, current_config_dir, join(current_config_dir, ConfigFileName))
    IN  IF current_dir = dirname(current_dir) THEN <<>>
        ELSE <<f>> \o LocalChain_BelowRoot(d, dirname(current_dir))

\* The walk of __init__ from current_dir up to the root.
RECURSIVE LocalChain(_, _)
LocalChain(d, current_dir) ==
    LET current_config_dir == join(current_dir, basename(ConfigDir))
        f == ConfigFile(d, current_config_dir, join(current_config_dir, ConfigFileName))
    IN  IF current_dir = dirname(current_dir) THEN <<f>>
        ELSE <<f>> \o LocalChain(d, dirname(current_dir))

\* Faulty variant of NewCLIConfig: the global source is put first.
NewCLIConfig_GlobalFirst(d, current_dir, use_local_config) ==
    [constructed      |-> TRUE,
     use_local_config |-> use_local_config,
     config_file_chain |->
        <<ConfigFile(d, ConfigDir, join(ConfigDir, ConfigFileName))>>
        \o (IF use_local_config THEN LocalChain(d, current_dir) ELSE <<>>)]

\* CLIConfig.__init__
NewCLIConfig(d, current_dir, use_local_config) ==
    [constructed      |-> TRUE,
     use_local_config |-> use_local_config,
     config_file_chain |->
        (IF use_local_config THEN LocalChain(d, current_dir) ELSE <<>>)
        \o <<ConfigFile(d, ConfigDir, join(ConfigDir, ConfigFileName))>>]

NoInstance == [constructed |-> FALSE, use_local_config |-> FALSE, config_file_chain |-> <<>>]

\* k in os.environ
InEnviron(env, k) == \E i \in 1..Len(env) : env[i][1] = k

\* os.environ[k]
EnvironGet(env, k) == env[CHOOSE i \in 1..Len(env) : env[i][1] = k][2]

\* Faulty variant of CLIHasOption: only the head of the chain is asked.
CLIHasOption_HeadOnly(c, env, section, option) ==
    IF InEnviron(env, env_var_name(section, option)) THEN TRUE
    ELSE FileHasOption(c.config_file_chain[1], section, option)

CLIHasOption(c, env, section, option) ==
    IF InEnviron(env, env_var_name(section, option)) THEN TRUE
    ELSE \E i \in 1..Len(c.config_file_chain) :
            FileHasOption(c.config_file_chain[i], section, option)

\* Faulty variant of ChainGet: a later source overrides an earlier one.
RECURSIVE ChainGet_LastHit(_, _, _, _)
ChainGet_LastHit(chain, section, option, last_ex) ==
    IF chain = <<>> THEN last_ex
    ELSE LET r == FileGet(chain[Len(chain)], section, option)
         IN  IF r.error = "none" THEN r
             ELSE ChainGet_LastHit(SubSeq(chain, 1, Len(chain) - 1), section, option, r)

\* Faulty variant of ChainGet: the first source's error is kept, not the last.
RECURSIVE ChainGet_FirstError(_, _, _, _)
ChainGet_FirstError(chain, section, option, last_ex) ==
    IF chain = <<>> THEN last_ex
    ELSE LET r == FileGet(Head(chain), section, option)
         IN  IF r.error = "none" THEN r
             ELSE ChainGet_FirstError(Tail(chain), section, option,
                                      IF last_ex.error = "TypeError" THEN r ELSE last_ex)

\* The loop of CLIConfig.get over the chain: the first value, or last_ex.
RECURSIVE ChainGet(_, _, _, _)
ChainGet(chain, section, option, last_ex) ==
    IF chain = <<>> THEN last_ex
    ELSE LET r == FileGet(Head(chain), section, option)
         IN  IF r.error = "none" THEN r
             ELSE ChainGet(Tail(chain), section, option, r)

\* The fallback argument: _UNSET, or a supplied value (None or text).
Unset == [given |-> FALSE, none |-> TRUE, text |-> <<>>]

FallbackNone == [given |-> TRUE, none |-> TRUE, text |-> <<>>]

FallbackText(text) == [given |-> TRUE, none |-> FALSE, text |-> text]

\* Faulty variant of CLIGet: the files are asked before the environment.
CLIGet_FilesFirst(c, env, section, option, fallback) ==
    LET r == ChainGet(c.config_file_chain, section, option, Raised("TypeError"))
    IN  IF r.error = "none" THEN r
        ELSE IF InEnviron(env, env_var_name(section, option))
             THEN Found(EnvironGet(env, env_var_name(section, option)))
             ELSE IF fallback.given
                  THEN [error |-> "none", none |-> fallback.none, text |-> fallback.text]
                  ELSE r

CLIGet(c, env, section, option, fallback) ==
    IF InEnviron(env, env_var_name(section, option))
    THEN Found(EnvironGet(env, env_var_name(section, option)))
    ELSE LET r == ChainGet(c.config_file_chain, section, option, Raised("TypeError"))
         IN  IF r.error = "none" THEN r
             ELSE IF fallback.given
                  THEN [error |-> "none", none |-> fallback.none, text |-> fallback.text]
                  ELSE r

\* re.match(pattern, k) for pattern = <head>_<section>_.+ (names here hold
\* letters and underscores only, which the pattern matches literally).
PatternMatches(section, k) ==
    LET literal == FirstSegment(env_var_format) \o <<"_">> \o section \o <<"_">>
    IN  IsPrefix(literal, k) /\ Len(k) > Len(literal)

\* result[name] = entry
DictPut(result, entry) == { e \in result : e.name # entry.name } \cup {entry}

\* result = {c[0]: c for c in candidates}, in the order of os.environ
RECURSIVE EnvCandidates(_, _)
EnvCandidates(env, section) ==
    IF env = <<>> THEN {}
    ELSE LET k == env[Len(env)][1]
             rest == EnvCandidates(SubSeq(env, 1, Len(env) - 1), section)
         IN  IF PatternMatches(section, k)
             THEN DictPut(rest, [name |-> LastSegment(k), value |-> env[Len(env)][2],
                                 source |-> k])
             ELSE rest

\* One pass of the loop over the chain: names not yet recorded are added.
MergeFile(result, f, section) ==
    LET got == FileItems(f, section)
    IN  IF got.error # "none" THEN result
        ELSE result \cup
             { [name |-> e[1], value |-> e[2], source |-> f.config_path] :
                 e \in { x \in got.entries : \A r \in result : r.name # x[1] } }

RECURSIVE MergeChain(_, _, _)
MergeChain(result, chain, section) ==
    IF chain = <<>> THEN result
    ELSE MergeChain(MergeFile(result, Head(chain), section), Tail(chain), section)

CLIItems(c, env, section) ==
    MergeChain(EnvCandidates(env, section), c.config_file_chain, section)

\* Faulty variant of WriteTarget: the global source at the tail is written.
WriteTarget_Tail(c) == c.config_file_chain[Len(c.config_file_chain)]

\* CLIConfig.set / set_value delegate to self.config_file_chain[0].
WriteTarget(c) == c.config_file_chain[1]

-----------------------------------------------------------------------------
(* The typed accessors: int(), float() and the boolean table applied to the  *)
(* result of CLIConfig.get. Numbers are exact: a float is the rational       *)
(* num/den in lowest terms (1/0, -1/0 and 0/0 stand for inf, -inf and nan).  *)

Digits == << "0", "1", "2", "3", "4", "5", "6", "7", "8", "9" >>

IsDigit(ch) == \E k \in DOMAIN Digits : Digits[k] = ch

DigitValue(ch) == (CHOOSE k \in DOMAIN Digits : Digits[k] = ch) - 1

\* Decimal digits, single underscores allowed between two digits.
DigitsOK(s) ==
    /\ s # <<>>
    /\ \A k \in 1..Len(s) :
          \/ IsDigit(s[k])
          \/ /\ s[k] = "_"
             /\ 1 < k /\ k < Len(s)
             /\ IsDigit(s[k - 1]) /\ IsDigit(s[k + 1])

RECURSIVE DigitsValue(_, _)
DigitsValue(s, acc) ==
    IF s = <<>> THEN acc
    ELSE DigitsValue(Tail(s), IF Head(s) = "_" THEN acc ELSE acc * 10 + DigitValue(Head(s)))

CountDigits(s) == Cardinality({ k \in 1..Len(s) : IsDigit(s[k]) })

RECURSIVE Pow10(_)
Pow10(n) == IF n = 0 THEN 1 ELSE 10 * Pow10(n - 1)

RECURSIVE Gcd(_, _)
Gcd(a, b) == IF b = 0 THEN a ELSE Gcd(b, a % b)

Abs(n) == IF n < 0 THEN -n ELSE n

\* The index of the first character of s that is in chars, or 0.
IndexOf(s, chars) ==
    IF \E k \in 1..Len(s) : s[k] \in chars
    THEN CHOOSE k \in 1..Len(s) :
            s[k] \in chars /\ \A j \in 1..(k - 1) : s[j] \notin chars
    ELSE 0

HasSign(s) == s # <<>> /\ Head(s) \in {"+", "-"}

Unsigned(s) == IF HasSign(s) THEN Tail(s) ELSE s

SignOf(s) == IF s # <<>> /\ Head(s) = "-" THEN -1 ELSE 1

\* The values the typed accessors return, and their outcomes.
NoValue == [type |-> "none", num |-> 0, den |-> 1]

IntValue(n) == [type |-> "int", num |-> n, den |-> 1]

FloatValue(num, den) ==
    LET g == Gcd(Abs(num), Abs(den))
    IN  IF g = 0 THEN [type |-> "float", num |-> 0, den |-> 0]
        ELSE [type |-> "float", num |-> num \div g, den |-> den \div g]

BoolValue(b) == [type |-> "bool", num |-> IF b THEN 1 ELSE 0, den |-> 1]

Returned(value) == [error |-> "none", value |-> value, text |-> <<>>]

Failed(kind, text) == [error |-> kind, value |-> NoValue, text |-> text]

\* Faulty variant of PyInt: text that is no integer counts as 0.
PyInt_Lenient(v) ==
    LET s == Strip(v.text)
    IN  IF v.none THEN Failed("TypeError", <<>>)
        ELSE IF DigitsOK(Unsigned(s))
             THEN Returned(IntValue(SignOf(s) * DigitsValue(Unsigned(s), 0)))
             ELSE Returned(IntValue(0))

\* int(v) for v None or text: TypeError for None, ValueError for text that is
\* no integer literal (surrounding whitespace and a sign are allowed).
PyInt(v) ==
    LET s == Strip(v.text)
    IN  IF v.none THEN Failed("TypeError", <<>>)
        ELSE IF DigitsOK(Unsigned(s))
             THEN Returned(IntValue(SignOf(s) * DigitsValue(Unsigned(s), 0)))
             ELSE Failed("ValueError", v.text)

\* The parts of an unsigned float literal: mantissa before and after ".",
\* and the exponent after "e" or "E".
Mantissa(u) == IF IndexOf(u, {"e", "E"}) = 0 THEN u ELSE SubSeq(u, 1, IndexOf(u, {"e", "E"}) - 1)

Exponent(u) == IF IndexOf(u, {"e", "E"}) = 0 THEN <<>> ELSE SubSeq(u, IndexOf(u, {"e", "E"}) + 1, Len(u))

IntPart(m) == IF IndexOf(m, {"."}) = 0 THEN m ELSE SubSeq(m, 1, IndexOf(m, {"."}) - 1)

FracPart(m) == IF IndexOf(m, {"."}) = 0 THEN <<>> ELSE SubSeq(m, IndexOf(m, {"."}) + 1, Len(m))

FloatLiteralOK(u) ==
    LET m == Mantissa(u)
    IN  /\ IntPart(m) # <<>> \/ FracPart(m) # <<>>
        /\ IntPart(m) = <<>> \/ DigitsOK(IntPart(m))
        /\ FracPart(m) = <<>> \/ DigitsOK(FracPart(m))
        /\ IndexOf(u, {"e", "E"}) = 0 \/ DigitsOK(Unsigned(Exponent(u)))

FloatLiteralValue(sign, u) ==
    LET m   == Mantissa(u)
        num == sign * DigitsValue(IntPart(m) \o FracPart(m), 0)
        den == Pow10(CountDigits(FracPart(m)))
        e   == IF IndexOf(u, {"e", "E"}) = 0 THEN 0
               ELSE SignOf(Exponent(u)) * DigitsValue(Unsigned(Exponent(u)), 0)
    IN  IF e >= 0 THEN FloatValue(num * Pow10(e), den)
        ELSE FloatValue(num, den * Pow10(-e))

\* float(v) for v None or text: TypeError for None, ValueError for text that
\* is no float literal.
PyFloat(v) ==
    LET s == Strip(v.text)
        u == Unsigned(s)
    IN  IF v.none THEN Failed("TypeError", <<>>)
        ELSE IF Lower(u) \in { <<"i", "n", "f">>, <<"i", "n", "f", "i", "n", "i", "t", "y">> }
             THEN Returned([type |-> "float", num |-> SignOf(s), den |-> 0])
        ELSE IF Lower(u) = <<"n", "a", "n">>
             THEN Returned([type |-> "float", num |-> 0, den |-> 0])
        ELSE IF FloatLiteralOK(u) THEN Returned(FloatLiteralValue(SignOf(s), u))
        ELSE Failed("ValueError", v.text)

\* str(v) for v None or text.
PyStr(v) == IF v.none THEN <<"N", "o", "n", "e">> ELSE v.text

\* _BOOLEAN_STATES
BOOLEAN_STATES ==
    [text \in { <<"1">>, <<"y", "e", "s">>, <<"t", "r", "u", "e">>, <<"o", "n">>,
                <<"0">>, <<"n", "o">>, <<"f", "a", "l", "s", "e">>, <<"o", "f", "f">> } |->
        text \in { <<"1">>, <<"y", "e", "s">>, <<"t", "r", "u", "e">>, <<"o", "n">> }]

\* Faulty variant of PyBoolean: the table is consulted without lower-casing.
PyBoolean_CaseSensitive(v) ==
    LET val == PyStr(v)
    IN  IF val \notin DOMAIN BOOLEAN_STATES THEN Failed("ValueError", val)
        ELSE Returned(BoolValue(BOOLEAN_STATES[val]))

\* The body of CLIConfig.getboolean after get returned v.
PyBoolean(v) ==
    LET val == PyStr(v)
    IN  IF Lower(val) \notin DOMAIN BOOLEAN_STATES THEN Failed("ValueError", val)
        ELSE Returned(BoolValue(BOOLEAN_STATES[Lower(val)]))

\* Faulty variant of CLIGetInt: text that is no integer gives way to the fallback.
CLIGetInt_FallbackOnError(c, env, section, option, fallback) ==
    LET r == CLIGet(c, env, section, option, fallback)
    IN  IF r.error # "none" THEN Failed(r.error, <<>>)
        ELSE IF PyInt(r).error = "ValueError" /\ fallback.given
             THEN PyInt([error |-> "none", none |-> fallback.none, text |-> fallback.text])
             ELSE PyInt(r)

\* CLIConfig.getint / getfloat / getboolean: an error of get passes through.
CLIGetInt(c, env, section, option, fallback) ==
    LET r == CLIGet(c, env, section, option, fallback)
    IN  IF r.error # "none" THEN Failed(r.error, <<>>) ELSE PyInt(r)

CLIGetFloat(c, env, section, option, fallback) ==
    LET r == CLIGet(c, env, section, option, fallback)
    IN  IF r.error # "none" THEN Failed(r.error, <<>>) ELSE PyFloat(r)

CLIGetBoolean(c, env, section, option, fallback) ==
    LET r == CLIGet(c, env, section, option, fallback)
    IN  IF r.error # "none" THEN Failed(r.error, <<>>) ELSE PyBoolean(r)

-----------------------------------------------------------------------------
(* The state machine: one process, whole calls. Instance 1 is constructed in *)
(* Init; an instance constructed later is NewCLIConfig of the state then.    *)

Instances == {1, 2}

Cwds == { Root, Home }

ConfigPath(dir) == join(join(dir, basename(ConfigDir)), ConfigFileName)

ConfigPaths == { ConfigPath(dir) : dir \in Cwds } \cup { join(ConfigDir, ConfigFileName) }

EnvNames == { env_var_name(s, o) : s \in Sections, o \in Options }

\* The environments considered: nothing set, or one variable set.
Environs == { <<>> } \cup { << <<k, v>> >> : k \in EnvNames, v \in EnvValues }

\* umask 022
DefaultUmask == {"gw", "ow"}

\* umask 077
PrivateUmask == {"gr", "gw", "or", "ow"}

Store1(section, option, value) ==
    ParserSet(AddSection(EmptyStore, section), section, option, value)

Store2(section, o1, v1, o2, v2) == ParserSet(Store1(section, o1, v1), section, o2, v2)

\* Files as other programs (an editor, another tool) leave them.
ExternalFiles ==
    { [exists |-> TRUE, content |-> Store1(<<"C">>, <<"o">>, <<"v">>),
       mode |-> CreateMode \ DefaultUmask],
      [exists |-> TRUE,
       content |-> Store2(<<"C">>, <<"o">>, <<"w">>, <<"a", "_", "o">>, <<"v">>),
       mode |-> {"ur", "uw", "gr"}] }

\* Parsers a caller hands to CLIConfig.set.
CallerConfigs ==
    { Store1(<<"c", "_", "a">>, <<"O">>, <<" ", "w">>), AddSection(EmptyStore, <<"C">>) }

NoOp ==
    [op |-> "none", i |-> 0, section |-> <<>>, option |-> <<>>, value |-> <<>>,
     config |-> EmptyStore, path |-> <<>>, pre |-> NoFile, predir |-> FALSE,
     prev |-> "none", fallback |-> Unset, ret |-> Returned(NoValue),
     solo |-> TRUE, prevsolo |-> TRUE, prevkey |-> <<>>]

Idle == [config |-> EmptyStore, call |-> NoOp]

TypeOK ==
    /\ environ \in Environs
    /\ cwd \in Cwds
    /\ umask \in {DefaultUmask, PrivateUmask}
    /\ dirs \subseteq { dirname(p) : p \in ConfigPaths }
    /\ DOMAIN disk = ConfigPaths
    /\ \A p \in ConfigPaths : disk[p].exists => dirname(p) \in dirs
    /\ DOMAIN inst = Instances
    /\ ops \in 0..MaxOps

Init ==
    /\ environ \in Environs
    /\ cwd \in Cwds
    /\ umask = DefaultUmask
    /\ disk \in [ConfigPaths -> ExternalFiles \cup {NoFile}]
    /\ disk0 = disk
    /\ dirs = { dirname(p) : p \in { q \in ConfigPaths : disk[q].exists } }
    \* __init__ reads the working directory only under use_local_config, so
    \* one working directory stands for all when it is off.
    /\ \E use_local_config \in BOOLEAN :
          /\ use_local_config \/ cwd = Home
          /\ inst = [i \in Instances |->
                       IF i = 1 THEN NewCLIConfig(disk, cwd, use_local_config)
                       ELSE NoInstance]
    /\ pc = [p \in Instances |-> "idle"]
    /\ tmp = [p \in Instances |-> Idle]
    /\ last = NoOp
    /\ ops = 0

\* CLIConfig.set(config) -> config_file_chain[0].set(config)
CLISet(i, config) ==
    LET f == WriteTarget(inst[i])
    IN  /\ ops < MaxOps
        /\ inst[i].constructed
        /\ dirs' = FileSetDirs(dirs, f)
        /\ disk' = FileSet(disk, umask, f, config)
        /\ inst' = [inst EXCEPT ![i].config_file_chain[1] = FileAfterSet(disk', f)]
        /\ last' = [NoOp EXCEPT !.op = "set", !.i = i, !.config = config,
                                !.path = f.config_path, !.pre = disk[f.config_path],
                                !.predir = f.config_dir \in dirs,
                                !.prev = last.op]
        /\ ops' = ops + 1
        /\ UNCHANGED <<environ, cwd, umask, disk0, pc, tmp>>

\* CLIConfig.set_value(section, option, value)
\*   -> config_file_chain[0].set_value(section, option, value)
CLISetValue(i, section, option, value) ==
    LET f == WriteTarget(inst[i])
        config == TransientConfig(disk, f, section, option, value)
    IN  /\ ops < MaxOps
        /\ inst[i].constructed
        /\ dirs' = FileSetDirs(dirs, f)
        /\ disk' = FileSet(disk, umask, f, config)
        /\ inst' = [inst EXCEPT ![i].config_file_chain[1] = FileAfterSet(disk', f)]
        /\ last' = [NoOp EXCEPT !.op = "set_value", !.i = i, !.section = section,
                                !.option = option, !.value = value, !.config = config,
                                !.path = f.config_path, !.pre = disk[f.config_path],
                                !.predir = f.config_dir \in dirs,
                                !.prev = last.op]
        /\ ops' = ops + 1
        /\ UNCHANGED <<environ, cwd, umask, disk0, pc, tmp>>

\* Another writer replaces a configuration file.
ExternalEdit(path, file) ==
    /\ ops < MaxOps
    /\ disk[path] # file
    /\ disk' = [disk EXCEPT ![path] = file]
    /\ dirs' = dirs \cup {dirname(path)}
    /\ last' = [NoOp EXCEPT !.op = "edit", !.path = path, !.pre = disk[path],
                            !.predir = dirname(path) \in dirs,
                            !.prev = last.op]
    /\ ops' = ops + 1
    /\ UNCHANGED <<environ, cwd, umask, disk0, inst, pc, tmp>>

Next ==
    \/ \E i \in Instances, config \in CallerConfigs : CLISet(i, config)
    \/ \E i \in Instances, s \in Sections, o \in Options, v \in Values :
          CLISetValue(i, s, o, v)
    \/ \E path \in ConfigPaths, file \in ExternalFiles : ExternalEdit(path, file)

Spec == Init /\ [][Next]_vars

-----------------------------------------------------------------------------
(* Properties of whole calls *)

Constructed == { i \in Instances : inst[i].constructed }

Pairs == Sections \X Options

Fallbacks == { Unset, FallbackNone, FallbackText(<<>>), FallbackText(<<"d">>) }

EnvSet(section, option) == InEnviron(environ, env_var_name(section, option))

Chain(i) == inst[i].config_file_chain

\* C1 (as claimed): after set_value(section, option, value) returns, and with no
\* environment variable set for the pair, get(section, option) on the same
\* instance returns exactly value.
C1_RoundTripSameInstance ==
    (last.op = "set_value" /\ ~EnvSet(last.section, last.option))
        => CLIGet(inst[last.i], environ, last.section, last.option, Unset)
              = Found(last.value)

\* C2: whenever the environment variable derived from (section, option) is set,
\* get returns its value verbatim, with any fallback or none, whatever the
\* files of the chain hold.
C2_EnvironmentDominates ==
    \A i \in Constructed, p \in Pairs :
        EnvSet(p[1], p[2])
            => \A fallback \in Fallbacks :
                  CLIGet(inst[i], environ, p[1], p[2], fallback)
                     = Found(EnvironGet(environ, env_var_name(p[1], p[2])))

\* C2 witness: a variable is set for a pair that the head source defines with
\* another value.
C2_Witness ==
    \E i \in Constructed, p \in Pairs :
        /\ EnvSet(p[1], p[2])
        /\ FileHasOption(Chain(i)[1], p[1], p[2])
        /\ FileGet(Chain(i)[1], p[1], p[2]).text
              # EnvironGet(environ, env_var_name(p[1], p[2]))

\* C3: with no environment variable for the pair, if sources 1..k-1 of the
\* chain do not define the option and source k does, get returns source k's
\* value, whatever the later sources hold.
C3_FirstHitWins ==
    \A i \in Constructed, p \in Pairs :
        \A k \in 1..Len(Chain(i)) :
            ( /\ ~EnvSet(p[1], p[2])
              /\ \A j \in 1..(k - 1) : ~FileHasOption(Chain(i)[j], p[1], p[2])
              /\ FileHasOption(Chain(i)[k], p[1], p[2]) )
            => CLIGet(inst[i], environ, p[1], p[2], Unset)
                  = FileGet(Chain(i)[k], p[1], p[2])

\* C3 witness: the head source has the section but not the option, the second
\* source defines the option, and a later or earlier source holds another
\* value for an option the second one also defines.
C3_Witness ==
    \E i \in Constructed, p \in Pairs :
        /\ ~EnvSet(p[1], p[2])
        /\ Len(Chain(i)) >= 2
        /\ Chain(i)[1].config_parser.loaded
        /\ p[1] \in DOMAIN Chain(i)[1].config_parser.store
        /\ ~FileHasOption(Chain(i)[1], p[1], p[2])
        /\ FileHasOption(Chain(i)[2], p[1], p[2])
        /\ \E q \in Pairs :
              /\ FileHasOption(Chain(i)[1], q[1], q[2])
              /\ FileHasOption(Chain(i)[2], q[1], q[2])
              /\ FileGet(Chain(i)[1], q[1], q[2]) # FileGet(Chain(i)[2], q[1], q[2])

\* C4: has_option(section, option) is true exactly when get(section, option)
\* without a fallback returns a value instead of raising.
C4_HasAgreesWithGet ==
    \A i \in Constructed, p \in Pairs :
        CLIHasOption(inst[i], environ, p[1], p[2])
            <=> (CLIGet(inst[i], environ, p[1], p[2], Unset).error = "none")

\* C4 witness: after a set_value, an option is reported present that only a
\* source behind the head defines, and another option is reported absent.
C4_Witness ==
    /\ last.op = "set_value"
    /\ \E i \in Constructed, p \in Pairs :
          /\ ~EnvSet(p[1], p[2])
          /\ Len(Chain(i)) >= 2
          /\ ~FileHasOption(Chain(i)[1], p[1], p[2])
          /\ CLIHasOption(inst[i], environ, p[1], p[2])
    /\ \E i \in Constructed, p \in Pairs : ~CLIHasOption(inst[i], environ, p[1], p[2])

\* C5 (as claimed): items(section) never holds two entries of the same name,
\* and an option defined both by its environment variable and by a file of
\* the chain is represented by exactly one entry, whose source is the variable's
\* name and whose value is the variable's value.
C5_ItemsMerge ==
    \A i \in Constructed, s \in Sections :
        LET result == CLIItems(inst[i], environ, s)
        IN  /\ \A e1 \in result, e2 \in result : e1.name = e2.name => e1 = e2
            /\ \A o \in Options :
                 ( /\ EnvSet(s, o)
                   /\ \E j \in 1..Len(Chain(i)) : FileHasOption(Chain(i)[j], s, o) )
                 => LET entries == { e \in result : optionxform(e.name) = optionxform(o) }
                    IN  /\ Cardinality(entries) = 1
                        /\ \A e \in entries :
                              /\ e.source = env_var_name(s, o)
                              /\ e.value = EnvironGet(environ, env_var_name(s, o))

\* The (section, option, value) triples a parser reads from the file at path.
FileTriples(path) == ReadFile(disk, path)

\* What a CLIConfig constructed now, with the parameters of instance i, is.
Restarted(i) == NewCLIConfig(disk, cwd, inst[i].use_local_config)

SameOption(section, option, s, o) ==
    section = s /\ optionxform(option) = optionxform(o)

OthersPersist(c) ==
    \A p \in Pairs :
        ( /\ ~SameOption(last.section, last.option, p[1], p[2])
          /\ ~EnvSet(p[1], p[2])
          /\ ParserHasOption(FileTriples(last.path), p[1], p[2]) )
        => CLIGet(c, environ, p[1], p[2], Unset)
              = ParserGet(FileTriples(last.path), p[1], p[2])

\* C6 (as claimed): after set_value(section, option, value), with no
\* environment variable set for the pair, a new instance with the same
\* parameters and environment returns exactly value for the pair, and for
\* every other option of the written head file the value that file holds.
C6_PersistsExactly ==
    (last.op = "set_value" /\ ~EnvSet(last.section, last.option))
        => /\ CLIGet(Restarted(last.i), environ, last.section, last.option, Unset)
                 = Found(last.value)
           /\ \A p \in Pairs :
                 ( /\ ~SameOption(last.section, last.option, p[1], p[2])
                   /\ ParserHasOption(FileTriples(last.path), p[1], p[2]) )
                 => CLIGet(Restarted(last.i), environ, p[1], p[2], Unset)
                       = ParserGet(FileTriples(last.path), p[1], p[2])

\* C6 (amended): after set_value(section, option, value), with no environment
\* variable set for the pair, a new instance with the same parameters and
\* environment returns value with its leading and trailing whitespace removed
\* for the pair, and for every other option of the written head file that no
\* environment variable overrides the value that file holds.
C6_PersistsStripped ==
    (last.op = "set_value" /\ ~EnvSet(last.section, last.option))
        => /\ CLIGet(Restarted(last.i), environ, last.section, last.option, Unset)
                 = Found(Strip(last.value))
           /\ OthersPersist(Restarted(last.i))

\* C6 witness: a set_value of a padded value into a file that already held
\* another option, which the new instance also returns, while the writing
\* instance itself still does not see the pair.
C6_Witness ==
    /\ last.op = "set_value"
    /\ ~EnvSet(last.section, last.option)
    /\ last.value # Strip(last.value)
    /\ ~CLIHasOption(inst[last.i], environ, last.section, last.option)
    /\ CLIGet(Restarted(last.i), environ, last.section, last.option, Unset)
          = Found(Strip(last.value))
    /\ \E p \in Pairs :
          /\ ~SameOption(last.section, last.option, p[1], p[2])
          /\ ~EnvSet(p[1], p[2])
          /\ ParserHasOption(FileTriples(last.path), p[1], p[2])

\* The triples of the head file before the call, all but the written option,
\* are in the file after it.
OthersKept ==
    LET before == IF last.pre.exists THEN last.pre.content ELSE EmptyStore
        after == FileTriples(last.path)
    IN  \A s \in DOMAIN before :
            /\ s \in DOMAIN after
            /\ \A o \in DOMAIN before[s] :
                  ~SameOption(last.section, last.option, s, o)
                     => (o \in DOMAIN after[s] /\ after[s][o] = before[s][o])

\* C7 (as claimed): after set_value(section, option, value) the head file
\* holds every triple it held just before the call, whoever wrote it, except
\* that (section, option) now maps to exactly value.
C7_EditsKeptExactValue ==
    last.op = "set_value"
        => /\ OthersKept
           /\ ParserGet(FileTriples(last.path), last.section, last.option)
                 = Found(last.value)

\* C7 (amended): after set_value(section, option, value) the head file holds
\* every triple it held just before the call, whoever wrote it, except that
\* (section, option) now maps to value with its leading and trailing whitespace
\* removed; the construction-time snapshot is never written back.
C7_EditsKept ==
    last.op = "set_value"
        => /\ OthersKept
           /\ ParserGet(FileTriples(last.path), last.section, last.option)
                 = Found(Strip(last.value))

\* C7 witness: the head file was replaced by another writer after the instance
\* was constructed, the set_value followed, and the file holds a triple of
\* that edit which the instance's snapshot does not.
C7_Witness ==
    /\ last.op = "set_value"
    /\ last.prev = "edit"
    /\ last.pre.exists
    /\ last.pre.content # WriteTarget(inst[last.i]).config_parser.store
    /\ \E p \in Pairs :
          /\ ~SameOption(last.section, last.option, p[1], p[2])
          /\ ParserHasOption(last.pre.content, p[1], p[2])
          /\ ~FileHasOption(WriteTarget(inst[last.i]), p[1], p[2])
          /\ ParserHasOption(FileTriples(last.path), p[1], p[2])

FinalMode ==
    last.op \in {"set", "set_value"} => disk[last.path].mode = OwnerOnly

Created ==
    /\ dirname(last.path) \in dirs
    /\ disk[last.path].exists
    /\ disk[last.path].mode = OwnerOnly

\* C9 (as claimed): a set_value on a head file that does not exist leaves the
\* directory and the file in place, the file holding exactly the one written
\* (section, option, value) with mode owner-read/owner-write; every set and
\* set_value leaves that mode on the file it wrote.
C9_CreatedExactValue ==
    /\ (last.op = "set_value" /\ ~last.pre.exists)
          => /\ Created
             /\ FileTriples(last.path) = Store1(last.section, last.option, last.value)
    /\ FinalMode

\* C9 (amended): as claimed, the one triple holding value with its leading and
\* trailing whitespace removed.
C9_Created ==
    /\ (last.op = "set_value" /\ ~last.pre.exists)
          => /\ Created
             /\ FileTriples(last.path)
                   = Store1(last.section, last.option, Strip(last.value))
    /\ FinalMode

\* C9 witness: the head file and its directory did not exist when set_value
\* was called.
C9_Witness ==
    /\ last.op = "set_value"
    /\ ~last.pre.exists
    /\ ~last.predir
    /\ disk[last.path].exists

\* C9 second witness state: a set on a file that was group-readable.
C9_WitnessExisting ==
    /\ last.op = "set"
    /\ last.pre.exists
    /\ "gr" \in last.pre.mode

DistinctPaths(chain) ==
    \A j \in 1..Len(chain), k \in 1..Len(chain) :
        chain[j].config_path = chain[k].config_path => j = k

\* C10: a set or set_value on a chain of two or more sources with pairwise
\* distinct paths leaves the files and directories of every source behind the
\* head as they were.
C10_WritesOnlyHead ==
    [][ (ops' = ops + 1 /\ last'.op \in {"set", "set_value"})
          => LET chain == inst[last'.i].config_file_chain
             IN  (Len(chain) >= 2 /\ DistinctPaths(chain))
                    => \A j \in 2..Len(chain) :
                          /\ disk'[chain[j].config_path] = disk[chain[j].config_path]
                          /\ (chain[j].config_dir \in dirs') = (chain[j].config_dir \in dirs)
      ]_vars

\* C10 witness: a write through a two-source chain of distinct paths changed
\* the head file while the file of the second source exists.
C10_Witness ==
    /\ last.op \in {"set", "set_value"}
    /\ Len(Chain(last.i)) >= 2
    /\ DistinctPaths(Chain(last.i))
    /\ last.path = Chain(last.i)[1].config_path
    /\ disk[last.path] # last.pre
    /\ disk[Chain(last.i)[2].config_path].exists

-----------------------------------------------------------------------------
(* The state machine of the writes, one system call at a time: each process *)
(* holds its own CLIConfig and runs set / set_value step by step.           *)

Procs == Instances

\* The calls the processes make.
StepSections == { <<"C">> }

StepOptions == { <<"o">>, <<"a", "_", "o">> }

StepValues == { <<"v">> }

StepConfigs == { AddSection(EmptyStore, <<"C">>) }

\* The files present when the processes start: the world-readable ones.
StepFiles == { f \in ExternalFiles : "or" \in f.mode }

InitSteps ==
    /\ environ = <<>>
    /\ cwd \in Cwds
    /\ umask \in {DefaultUmask, PrivateUmask}
    /\ disk \in [ConfigPaths -> StepFiles \cup {NoFile}]
    /\ disk0 = disk
    /\ dirs = { dirname(p) : p \in { q \in ConfigPaths : disk[q].exists } }
    /\ \E use_local_config \in BOOLEAN :
          inst = [i \in Instances |-> NewCLIConfig(disk, cwd, use_local_config)]
    /\ pc = [p \in Procs |-> "idle"]
    /\ tmp = [p \in Procs |-> Idle]
    /\ last = NoOp
    /\ ops = 0

Target(p) == WriteTarget(inst[p])

\* No other process is inside a call when p enters one; a call that p's call
\* overlaps is marked as not having run alone.
Alone(p) == \A q \in Procs \ {p} : pc[q] = "idle"

Overlapped(p) ==
    [q \in Procs |->
        IF q # p /\ pc[q] # "idle" THEN [tmp[q] EXCEPT !.call.solo = FALSE] ELSE tmp[q]]

\* set_value, lines 162-168: the file is read into a new parser, the value set.
BeginSetValue(p, section, option, value) ==
    /\ pc[p] = "idle"
    /\ ops < MaxOps
    /\ tmp' = [Overlapped(p) EXCEPT ![p] =
                [config |-> TransientConfig(disk, Target(p), section, option, value),
                 call |-> [NoOp EXCEPT !.op = "set_value", !.i = p, !.section = section,
                                       !.option = option, !.value = value,
                                       !.path = Target(p).config_path,
                                       !.pre = disk[Target(p).config_path],
                                       !.predir = Target(p).config_dir \in dirs,
                                       !.solo = Alone(p)]]]
    /\ pc' = [pc EXCEPT ![p] = "ensure_dir"]
    /\ ops' = ops + 1
    /\ UNCHANGED <<environ, cwd, umask, disk0, dirs, disk, inst, last>>

\* CLIConfig.set(config) is entered with the caller's parser.
BeginSet(p, config) ==
    /\ pc[p] = "idle"
    /\ ops < MaxOps
    /\ tmp' = [Overlapped(p) EXCEPT ![p] =
                [config |-> config,
                 call |-> [NoOp EXCEPT !.op = "set", !.i = p, !.config = config,
                                       !.path = Target(p).config_path,
                                       !.pre = disk[Target(p).config_path],
                                       !.predir = Target(p).config_dir \in dirs,
                                       !.solo = Alone(p)]]]
    /\ pc' = [pc EXCEPT ![p] = "ensure_dir"]
    /\ ops' = ops + 1
    /\ UNCHANGED <<environ, cwd, umask, disk0, dirs, disk, inst, last>>

\* line 155
StepEnsureDir(p) ==
    /\ pc[p] = "ensure_dir"
    /\ dirs' = FileSetDirs(dirs, Target(p))
    /\ pc' = [pc EXCEPT ![p] = "open"]
    /\ UNCHANGED <<environ, cwd, umask, disk0, disk, inst, tmp, last, ops>>

\* line 156
StepOpen(p) ==
    /\ pc[p] = "open"
    /\ disk' = OpenForWrite(disk, Target(p).config_path, umask)
    /\ pc' = [pc EXCEPT ![p] = "write"]
    /\ UNCHANGED <<environ, cwd, umask, disk0, dirs, inst, tmp, last, ops>>

\* line 157 and the end of the with-block
StepWrite(p) ==
    /\ pc[p] = "write"
    /\ disk' = WriteFile(disk, Target(p).config_path, tmp[p].config)
    /\ pc' = [pc EXCEPT ![p] = "chmod"]
    /\ UNCHANGED <<environ, cwd, umask, disk0, dirs, inst, tmp, last, ops>>

\* line 158
StepChmod(p) ==
    /\ pc[p] = "chmod"
    /\ disk' = Chmod(disk, Target(p).config_path)
    /\ pc' = [pc EXCEPT ![p] = "reload"]
    /\ UNCHANGED <<environ, cwd, umask, disk0, dirs, inst, tmp, last, ops>>

\* line 159, and the return
StepReload(p) ==
    /\ pc[p] = "reload"
    /\ tmp' = [tmp EXCEPT ![p] = [Idle EXCEPT !.config =
                                    ConfigAfterSet(disk, Target(p), tmp[p].config)]]
    /\ inst' = [inst EXCEPT ![p].config_file_chain[1] = FileAfterSet(disk, Target(p))]
    /\ last' = [tmp[p].call EXCEPT !.prev = last.op, !.prevsolo = last.solo,
                                    !.prevkey = <<last.path, last.section,
                                                  optionxform(last.option)>>]
    /\ pc' = [pc EXCEPT ![p] = "idle"]
    /\ UNCHANGED <<environ, cwd, umask, disk0, dirs, disk, ops>>

NextSteps ==
    \/ \E p \in Procs, s \in StepSections, o \in StepOptions, v \in StepValues :
          BeginSetValue(p, s, o, v)
    \/ \E p \in Procs, config \in StepConfigs : BeginSet(p, config)
    \/ \E p \in Procs : StepEnsureDir(p)
    \/ \E p \in Procs : StepOpen(p)
    \/ \E p \in Procs : StepWrite(p)
    \/ \E p \in Procs : StepChmod(p)
    \/ \E p \in Procs : StepReload(p)

SpecSteps == InitSteps /\ [][NextSteps]_vars

OthersBits == {"gr", "gw", "or", "ow"}

\* C8 (as claimed): at every point of a set or set_value call whose target
\* file did not exist when the call began, the target file, once it exists,
\* carries no group or other permission bit.
C8_NoExposureWindow ==
    \A p \in Procs :
        (pc[p] # "idle" /\ ~tmp[p].call.pre.exists /\ disk[tmp[p].call.path].exists)
            => disk[tmp[p].call.path].mode \cap OthersBits = {}

(* Fallbacks and the not-found error *)

\* Some source of instance i, or the environment, defines the pair.
Defined(i, section, option) ==
    \/ EnvSet(section, option)
    \/ \E j \in 1..Len(Chain(i)) : FileHasOption(Chain(i)[j], section, option)

AsResult(fallback) == [error |-> "none", none |-> fallback.none, text |-> fallback.text]

\* C11: with no variable set and no source of the chain defining the option,
\* get returns a supplied fallback unchanged (None and the empty text included)
\* and, with no fallback, raises the not-found error that the last source of
\* the chain raises; when some source defines the option, a fallback changes
\* nothing of what get returns.
C11_FallbackAndNotFound ==
    \A i \in Constructed, p \in Pairs :
        LET plain == CLIGet(inst[i], environ, p[1], p[2], Unset)
        IN  IF Defined(i, p[1], p[2])
            THEN /\ plain.error = "none"
                 /\ \A fallback \in Fallbacks :
                       CLIGet(inst[i], environ, p[1], p[2], fallback) = plain
            ELSE /\ \A fallback \in Fallbacks \ {Unset} :
                       CLIGet(inst[i], environ, p[1], p[2], fallback) = AsResult(fallback)
                 /\ plain = FileGet(Chain(i)[Len(Chain(i))], p[1], p[2])
                 /\ plain.error \in {"NoSectionError", "NoOptionError"}

\* C11 witness: after a write, no source defines a pair, and the head and the
\* last source of the chain raise different not-found errors for it.
C11_Witness ==
    \E i \in Constructed, p \in Pairs :
        /\ ops > 0
        /\ ~Defined(i, p[1], p[2])
        /\ FileGet(Chain(i)[1], p[1], p[2]).error
              # FileGet(Chain(i)[Len(Chain(i))], p[1], p[2]).error
        /\ CLIGet(inst[i], environ, p[1], p[2], FallbackText(<<>>)) = Found(<<>>)

-----------------------------------------------------------------------------
(* The state machine of the typed accessors: one instance over the global    *)
(* file alone, an environment and a file drawn from texts that are and are   *)
(* not numbers and boolean literals, and getint / getfloat / getboolean      *)
(* called on it.                                                             *)

TypedSections == { <<"C">> }

TypedOptions == { <<"o">> }

TypedTexts ==
    { <<"1">>, <<"0">>, <<"Y", "E", "S">>, <<"O", "n">>, <<"t", "r", "u", "e">>,
      <<"n", "o">>, <<"F", "a", "l", "s", "e">>, <<"o", "f", "f">>,
      <<"m", "a", "y", "b", "e">>, <<"1", ".", "5">>, <<"-", "1", "5">>, <<>> }

\* os.environ hands a value over as it is; a file's value arrives stripped.
TypedEnvTexts == TypedTexts \cup { <<" ", "1">>, <<" ", "o", "n">> }

TypedFallbacks ==
    { Unset, FallbackNone, FallbackText(<<"1">>), FallbackText(<<"n", "o">>) }

TypedEnvirons ==
    { <<>> } \cup { << <<env_var_name(s, o), v>> >> :
                       s \in TypedSections, o \in TypedOptions, v \in TypedEnvTexts }

TypedFiles ==
    { NoFile } \cup { [exists |-> TRUE, content |-> Store1(s, o, v), mode |-> OwnerOnly] :
                        s \in TypedSections, o \in TypedOptions, v \in TypedTexts }

InitTyped ==
    /\ environ \in TypedEnvirons
    /\ cwd = Home
    /\ umask = DefaultUmask
    /\ \E f \in TypedFiles :
          disk = [p \in ConfigPaths |->
                     IF p = join(ConfigDir, ConfigFileName) THEN f ELSE NoFile]
    /\ disk0 = disk
    /\ dirs = { dirname(p) : p \in { q \in ConfigPaths : disk[q].exists } }
    /\ inst = [i \in Instances |->
                 IF i = 1 THEN NewCLIConfig(disk, cwd, FALSE) ELSE NoInstance]
    /\ pc = [p \in Instances |-> "idle"]
    /\ tmp = [p \in Instances |-> Idle]
    /\ last = NoOp
    /\ ops = 0

TypedCall(op, i, section, option, fallback, ret) ==
    /\ ops < MaxOps
    /\ inst[i].constructed
    /\ last' = [NoOp EXCEPT !.op = op, !.i = i, !.section = section,
                            !.option = option, !.fallback = fallback, !.ret = ret]
    /\ ops' = ops + 1
    /\ UNCHANGED <<environ, cwd, umask, disk0, dirs, disk, inst, pc, tmp>>

GetInt(i, section, option, fallback) ==
    TypedCall("getint", i, section, option, fallback,
              CLIGetInt(inst[i], environ, section, option, fallback))

GetFloat(i, section, option, fallback) ==
    TypedCall("getfloat", i, section, option, fallback,
              CLIGetFloat(inst[i], environ, section, option, fallback))

GetBoolean(i, section, option, fallback) ==
    TypedCall("getboolean", i, section, option, fallback,
              CLIGetBoolean(inst[i], environ, section, option, fallback))

NextTyped ==
    \E i \in Instances, s \in TypedSections, o \in TypedOptions, fallback \in TypedFallbacks :
        \/ GetInt(i, s, o, fallback)
        \/ GetFloat(i, s, o, fallback)
        \/ GetBoolean(i, s, o, fallback)

SpecTyped == InitTyped /\ [][NextTyped]_vars

TypedOps == {"getint", "getfloat", "getboolean"}

\* What get returned inside the last typed call, and what it returns with no
\* fallback.
Resolved == CLIGet(inst[last.i], environ, last.section, last.option, last.fallback)

Plain == CLIGet(inst[last.i], environ, last.section, last.option, Unset)

Coerced(op, v) ==
    CASE op = "getint" -> PyInt(v)
      [] op = "getfloat" -> PyFloat(v)
      [] OTHER -> PyBoolean(v)

TrueTexts == { <<"1">>, <<"y", "e", "s">>, <<"t", "r", "u", "e">>, <<"o", "n">> }

FalseTexts == { <<"0">>, <<"n", "o">>, <<"f", "a", "l", "s", "e">>, <<"o", "f", "f">> }

HasDigit(text) == \E k \in 1..Len(text) : text[k] \in {"0", "1", "2", "3", "4", "5", "6", "7", "8", "9"}

\* Texts of the model that the accessor named op cannot coerce.
Malformed(op, text) ==
    CASE op = "getint" -> ~HasDigit(text) \/ \E k \in 1..Len(text) : text[k] = "."
      [] op = "getfloat" -> ~HasDigit(text)
      [] OTHER -> Lower(text) \notin TrueTexts \cup FalseTexts

\* C12: when the environment or a source of the chain defines the option, a
\* typed accessor coerces that value whatever fallback is supplied, and raises
\* the coercion error when the text is malformed; the coerced fallback is the
\* result only when no source defines the option.
C12_FallbackNeverMasks ==
    last.op \in TypedOps =>
        IF Defined(last.i, last.section, last.option)
        THEN /\ last.ret = Coerced(last.op, Plain)
             /\ Malformed(last.op, Plain.text) => last.ret.error = "ValueError"
        ELSE last.fallback.given => last.ret = Coerced(last.op, AsResult(last.fallback))

\* C12 witness: getint with a fallback that is an integer, on an option that a
\* source defines with text that is none, raised the coercion error.
C12_Witness ==
    /\ last.op = "getint"
    /\ Defined(last.i, last.section, last.option)
    /\ Malformed("getint", Plain.text)
    /\ last.fallback = FallbackText(<<"1">>)
    /\ last.ret.error = "ValueError"

\* C13: getboolean returns true exactly when the resolved value, lower-cased,
\* is 1, yes, true or on, false exactly when it is 0, no, false or off, and
\* otherwise raises a ValueError that carries the resolved text.
C13_BooleanTable ==
    (last.op = "getboolean" /\ Resolved.error = "none") =>
        LET val == IF Resolved.none THEN <<"N", "o", "n", "e">> ELSE Resolved.text
        IN  /\ last.ret = Returned(BoolValue(TRUE)) <=> Lower(val) \in TrueTexts
            /\ last.ret = Returned(BoolValue(FALSE)) <=> Lower(val) \in FalseTexts
            /\ Lower(val) \notin TrueTexts \cup FalseTexts
                  => last.ret = Failed("ValueError", val)

\* C13 witness: getboolean returned true for a literal written in upper case.
C13_Witness ==
    /\ last.op = "getboolean"
    /\ Resolved = Found(<<"Y", "E", "S">>)
    /\ last.ret = Returned(BoolValue(TRUE))

\* C14 (as claimed): getint and getfloat on a resolved text that is no number
\* fail with a TypeError.
C14_CoercionTypeError ==
    (/\ last.op \in {"getint", "getfloat"}
     /\ Resolved.error = "none" /\ ~Resolved.none
     /\ Malformed(last.op, Resolved.text))
        => last.ret.error = "TypeError"

\* C14 (amended): getint and getfloat on a resolved text that is no number fail
\* with a ValueError, not with the not-found error; a TypeError is raised only
\* when the resolved value is None.
C14_CoercionValueError ==
    (last.op \in {"getint", "getfloat"} /\ Resolved.error = "none") =>
        /\ (~Resolved.none /\ Malformed(last.op, Resolved.text))
              => last.ret.error = "ValueError"
        /\ last.ret.error = "TypeError" <=> Resolved.none

\* C14 witness: getint failed on the resolved text "maybe".
C14_Witness ==
    /\ last.op = "getint"
    /\ Resolved = Found(<<"m", "a", "y", "b", "e">>)
    /\ last.ret.error = "ValueError"

(* Environment variable names *)

\* SECTION_OPTION in upper case: the part of the name after the prefix.
UpperJoined(p) == Upper(p[1] \o <<"_">> \o p[2])

\* C15 (as claimed): the name is PREFIX_SECTION_OPTION in upper case, and two
\* different (section, option) pairs never derive the same name, so that a
\* variable set for one pair is set for no other.
C15_NamesInjective ==
    \A p \in Pairs, q \in Pairs :
        /\ env_var_name(p[1], p[2]) = Upper(EnvVarPrefix) \o <<"_">> \o UpperJoined(p)
        /\ p # q => env_var_name(p[1], p[2]) # env_var_name(q[1], q[2])
        /\ (p # q /\ EnvSet(p[1], p[2])) => ~EnvSet(q[1], q[2])

\* The pairs that share SECTION_OPTION in upper case, by the name it gives.
JoinedName(p) == Upper(EnvVarPrefix) \o <<"_">> \o UpperJoined(p)

Aliases ==
    [name \in { JoinedName(p) : p \in Pairs } |->
        { q \in Pairs : JoinedName(q) = name }]

NamesAsJoined ==
    \A p \in Pairs, q \in Pairs :
        /\ env_var_name(p[1], p[2]) = JoinedName(p)
        /\ env_var_name(p[1], p[2]) = env_var_name(q[1], q[2])
              <=> UpperJoined(p) = UpperJoined(q)

\* C15 (amended): the name is PREFIX_SECTION_OPTION in upper case; two pairs
\* derive the same name exactly when SECTION_OPTION in upper case is the same
\* text for both, and a variable set under that name is what get returns for
\* each of them.
C15_NamesUpperCase ==
    /\ NamesAsJoined
    /\ \A k \in 1..Len(environ) :
          environ[k][1] \in DOMAIN Aliases
             => \A q \in Aliases[environ[k][1]], i \in Constructed :
                   CLIGet(inst[i], environ, q[1], q[2], Unset) = Found(environ[k][2])

\* C15 witness: one variable is set, and get returns its value for two pairs
\* whose sections differ (the underscore divides section and option elsewhere).
C15_Witness ==
    \E i \in Constructed, p \in Pairs, q \in Pairs :
        /\ p[1] # q[1] /\ Upper(p[1]) # Upper(q[1])
        /\ EnvSet(p[1], p[2])
        /\ CLIGet(inst[i], environ, p[1], p[2], Unset)
              = Found(EnvironGet(environ, env_var_name(p[1], p[2])))
        /\ CLIGet(inst[i], environ, q[1], q[2], Unset)
              = CLIGet(inst[i], environ, p[1], p[2], Unset)
        /\ FileHasOption(Chain(i)[1], q[1], q[2])

(* What the reads depend on *)

SameResults(c1, c2) ==
    /\ \A p \in Pairs :
          /\ CLIGet(c1, environ, p[1], p[2], Unset) = CLIGet(c2, environ, p[1], p[2], Unset)
          /\ CLIHasOption(c1, environ, p[1], p[2]) = CLIHasOption(c2, environ, p[1], p[2])
    /\ \A s \in Sections : CLIItems(c1, environ, s) = CLIItems(c2, environ, s)

\* The files of instance i's chain hold what they held when it was constructed.
ChainFilesAsConstructed(i) ==
    \A j \in 1..Len(Chain(i)) :
        LET path == Chain(i)[j].config_path
        IN  /\ disk[path].exists = disk0[path].exists
            /\ ReadFile(disk, path) = ReadFile(disk0, path)

\* C16 (as claimed): get, has_option and items of an instance return what an
\* instance constructed now over the same chain paths returns, whatever
\* set_value calls and external edits happened since it was constructed.
C16_CurrentDiskOnly ==
    \A i \in Constructed : SameResults(inst[i], Restarted(i))

\* C16 (amended): get, has_option and items of an instance return what an
\* instance constructed now over the same chain paths returns whenever the
\* files of the chain hold what they held when the older one was constructed.
C16_ConstructionDiskOnly ==
    \A i \in Constructed :
        ChainFilesAsConstructed(i) => SameResults(inst[i], Restarted(i))

\* C16 witness: set_value rewrote the head file with the content it had at
\* construction; the older instance still answers like a new one.
C16_Witness ==
    \E i \in Constructed :
        /\ last.op = "set_value" /\ last.i = i
        /\ disk # disk0
        /\ ChainFilesAsConstructed(i)
        /\ CLIHasOption(inst[i], environ, last.section, last.option)
        /\ SameResults(inst[i], Restarted(i))

(* Two writers of one file *)

AllIdle == \A p \in Procs : pc[p] = "idle"

\* The last two calls to return were set_value calls on one file for two
\* different options.
TwoOptionsWritten ==
    /\ AllIdle
    /\ last.op = "set_value" /\ last.prev = "set_value"
    /\ last.prevkey[1] = last.path
    /\ <<last.prevkey[2], last.prevkey[3]>> # <<last.section, optionxform(last.option)>>

\* C17: when of two set_value calls on the same file for different options one
\* returns before the other is entered, the file holds both options afterwards.
C17_SequentialKeepsBoth ==
    (TwoOptionsWritten /\ last.solo /\ last.prevsolo) =>
        /\ ParserHasOption(ReadFile(disk, last.path), last.section, last.option)
        /\ ParserHasOption(ReadFile(disk, last.path), last.prevkey[2], last.prevkey[3])

\* C17 witness (the lost update): two processes' set_value calls on the same
\* file overlapped, both returned, and the file holds only one of the two
\* options.
C17_Witness ==
    /\ TwoOptionsWritten
    /\ ~last.solo
    /\ ParserHasOption(ReadFile(disk, last.path), last.section, last.option)
          # ParserHasOption(ReadFile(disk, last.path), last.prevkey[2], last.prevkey[3])

\* The sequential case of C17 is reached as well.
C17_WitnessSequential ==
    /\ TwoOptionsWritten /\ last.solo /\ last.prevsolo
    /\ ~ParserHasOption(ReadFile(disk0, last.path), last.section, last.option)

-----------------------------------------------------------------------------
(* The state machine of construction: an instance constructed in one of      *)
(* several working directories (the root, the home directory, the global     *)
(* configuration directory itself, directories one and two levels deep),     *)
(* with and without local configuration and with at most one environment     *)
(* variable set, and then written through.                                   *)

ChainCwds == { Root, Home, join(Home, "p"), <<"w">>, ConfigDir }

AncestorsOf(dir) == { SubSeq(dir, 1, k) : k \in 0..Len(dir) }

GlobalConfigPath == join(ConfigDir, ConfigFileName)

ChainPaths ==
    { ConfigPath(a) : a \in UNION { AncestorsOf(c) : c \in ChainCwds } }
        \cup { GlobalConfigPath }

ChainFile ==
    [exists |-> TRUE, content |-> Store1(<<"C">>, <<"o">>, <<"v">>),
     mode |-> CreateMode \ DefaultUmask]

ChainEnvirons ==
    { <<>> } \cup { << <<env_var_name(s, o), v>> >> :
                       s \in StepSections, o \in StepOptions, v \in EnvValues }

InitChain ==
    /\ environ \in ChainEnvirons
    /\ cwd \in ChainCwds
    /\ umask = DefaultUmask
    /\ \E present \in SUBSET { GlobalConfigPath, ConfigPath(cwd) } :
          disk = [p \in ChainPaths |-> IF p \in present THEN ChainFile ELSE NoFile]
    /\ disk0 = disk
    /\ dirs = { dirname(p) : p \in { q \in ChainPaths : disk[q].exists } }
    /\ \E use_local_config \in BOOLEAN :
          inst = [i \in Instances |->
                    IF i = 1 THEN NewCLIConfig(disk, cwd, use_local_config)
                    ELSE NoInstance]
    /\ pc = [p \in Instances |-> "idle"]
    /\ tmp = [p \in Instances |-> Idle]
    /\ last = NoOp
    /\ ops = 0

NextChain ==
    \/ \E i \in Instances, config \in StepConfigs : CLISet(i, config)
    \/ \E i \in Instances, s \in StepSections, o \in StepOptions, v \in StepValues :
          CLISetValue(i, s, o, v)

SpecChain == InitChain /\ [][NextChain]_vars

\* One path per directory from current_dir up to and including the root when
\* local configuration is on, then the global path.
ExpectedPaths(current_dir, use_local_config) ==
    (IF use_local_config
     THEN [k \in 1..(Len(current_dir) + 1) |->
              ConfigPath(SubSeq(current_dir, 1, Len(current_dir) + 1 - k))]
     ELSE <<>>) \o <<GlobalConfigPath>>

\* C18: construction ends for every working directory; the chain is one source
\* per directory from the working directory up to and including the root, in
\* that order, followed by the global source when local configuration is on,
\* and the global source alone when it is off; it has at least one source, the
\* global one last, and no later operation changes it.
C18_ChainShape ==
    \A i \in Constructed :
        LET chain == Chain(i)
        IN  /\ [j \in 1..Len(chain) |-> chain[j].config_path]
                  = ExpectedPaths(cwd, inst[i].use_local_config)
            /\ \A j \in 1..Len(chain) :
                  chain[j].config_dir = dirname(chain[j].config_path)
            /\ Len(chain) >= 1
            /\ chain[Len(chain)].config_path = GlobalConfigPath

\* C18 witness: after a write, an instance constructed with local
\* configuration two directories below the root has four sources.
C18_Witness ==
    \E i \in Constructed :
        /\ ops > 0
        /\ inst[i].use_local_config
        /\ Len(cwd) = Len(Home) + 1
        /\ Len(Chain(i)) = Len(cwd) + 2
        /\ Chain(i)[Len(cwd) + 1].config_path = ConfigPath(Root)

\* C19 (as claimed): no set or set_value writes the global fallback file.
C19_NeverWritesGlobal ==
    last.op \in {"set", "set_value"} => last.path # GlobalConfigPath

\* C19 (amended): set and set_value write the head of the chain; that is the
\* global fallback file exactly when local configuration is off or the working
\* directory is the parent of the global configuration directory, and in every
\* other case the global fallback file is left as it was.
C19_WritesGlobalOnlyWhen ==
    \A i \in Constructed :
        LET global == ~inst[i].use_local_config \/ cwd = dirname(ConfigDir)
        IN  /\ WriteTarget(inst[i]).config_path = GlobalConfigPath <=> global
            /\ (last.op \in {"set", "set_value"} /\ last.i = i) =>
                  /\ last.path = IF inst[i].use_local_config THEN ConfigPath(cwd)
                                 ELSE GlobalConfigPath
                  /\ disk[last.path].exists
            /\ ~global => disk[GlobalConfigPath] = disk0[GlobalConfigPath]

\* C19 witness: with local configuration on and the working directory not the
\* parent of the global configuration directory, set_value wrote the local file
\* and left the existing global file as it was.
C19_Witness ==
    \E i \in Constructed :
        /\ last.op = "set_value" /\ last.i = i
        /\ inst[i].use_local_config
        /\ cwd # dirname(ConfigDir)
        /\ disk[last.path] # disk0[last.path]
        /\ disk0[GlobalConfigPath].exists
        /\ disk[GlobalConfigPath] = disk0[GlobalConfigPath]

(* items against get and has_option *)

\* C20 (as claimed): every entry of items(section) carries the value that
\* get(section, name) returns, and every option for which has_option is true
\* has an entry in items(section).
C20_ItemsAgreeWithGet ==
    \A i \in Constructed, s \in Sections :
        /\ \A e \in CLIItems(inst[i], environ, s) :
              CLIGet(inst[i], environ, s, e.name, Unset) = Found(e.value)
        /\ \A o \in Options :
              CLIHasOption(inst[i], environ, s, o)
                 => \E e \in CLIItems(inst[i], environ, s) :
                       optionxform(e.name) = optionxform(o)

====
